---- MODULE Spec2Model ----
(***************************************************************************)
(* Model of the serverless ETL pipeline: the Extract, Transform, Load and  *)
(* Train functions, the queues and blob containers between them, and the   *)
(* compute job runner they call.                                           *)
(*                                                                         *)
(* Strings are sequences of tokens: a container name or a JSON key is one  *)
(* token, a blob name is a sequence of the tokens "s" and "/".  A queue    *)
(* message body is a record [utf8, text]: bytes that decode to text, or    *)
(* bytes that do not decode.                                               *)
(***************************************************************************)
EXTENDS Integers, Sequences, FiniteSets, TLC

VARIABLES
    moduleEnv,       \* the environment as it was when the modules were imported
    environ,         \* os.environ now
    ext,             \* Extract: the last invocation (bindings it set, logs, outcome)
    extractRuns,     \* Extract: invocations so far
    rawStore,        \* the raw-data container: leaf name -> content
    transformQueue,  \* the queue Extract writes and Transform reads
    tinv,            \* Transform: one record per invocation slot
    runs,            \* the compute job runner: run id -> submitted run
    deliveries,      \* Transform: deliveries that passed configuration validation, per body
    loadQueue,       \* the queue Transform writes and Load reads
    ld,              \* Load: the invocation (position, locals, logs, outcome)
    loadRuns,        \* Load: invocations so far
    datasetsStore,   \* the container Load reads: blob name -> content
    finalStore,      \* the final output container: blob name -> content
    tr,              \* Train: the invocation (stub runner, clock, position, logs, outcome)
    helper           \* Train's helper functions called on their own: the last call and its result

vars == <<moduleEnv, environ, ext, extractRuns, rawStore, transformQueue, tinv, runs,
          deliveries, loadQueue, ld, loadRuns, datasetsStore, finalStore, tr, helper>>

extractVars == <<ext, extractRuns, rawStore>>
transformVars == <<tinv, runs, deliveries>>
loadVars == <<ld, loadRuns, datasetsStore, finalStore>>

(***************************************************************************)
(* Bounds of the model.                                                    *)
(***************************************************************************)
MaxNameLen == 3
MaxExtractRuns == 2
MaxQueue == 2

(***************************************************************************)
(* Values.                                                                 *)
(***************************************************************************)
None == "<None>"
Unset == <<"<unset>">>

RECURSIVE SeqsUpTo(_, _)
SeqsUpTo(S, n) ==
    IF n = 0 THEN {<<>>}
    ELSE LET shorter == SeqsUpTo(S, n - 1)
         IN  shorter \cup {Append(s, x) : s \in shorter, x \in S}

\* The names a blob-arrival event can carry: non-empty strings over "s" and "/".
BlobNames == SeqsUpTo({"s", "/"}, MaxNameLen) \ {<<>>}
\* Blob contents.
Contents == {<<"c1">>, <<"c2">>}

\* A queue message body: bytes.
TextBody(text) == [utf8 |-> TRUE, text |-> text]
BadBody == [utf8 |-> FALSE, text |-> <<>>]

\* os.environ.get(key, default)
EnvGet(env, key, default) == IF env[key] = None THEN default ELSE env[key]

EnvKeys == {"RAW_DATA_CONTAINER_NAME", "LOAD_TRIGGER_QUEUE_NAME", "AzureWebJobsStorage",
            "DATABRICKS_MIN_WORKERS", "DATABRICKS_MAX_WORKERS",
            "DATABRICKS_HOST", "DATABRICKS_TOKEN", "DATABRICKS_NOTEBOOK_PATH",
            "PROCESSED_DATA_CONTAINER_NAME", "STORAGE_ACCOUNT_NAME",
            "DATASETS_CONTAINER_NAME", "FINAL_OUTPUT_CONTAINER_NAME",
            "DATABRICKS_JOB_ID_MODEL_TRAINING", "STORAGE_ACCOUNT_NAME_PARAM"}

\* The settings of a deployed function app.
FullEnv ==
    [k \in EnvKeys |->
        CASE k = "RAW_DATA_CONTAINER_NAME" -> "raw-data"
          [] k = "LOAD_TRIGGER_QUEUE_NAME" -> "load-queue"
          [] k = "AzureWebJobsStorage" -> "conn"
          [] k = "DATABRICKS_MIN_WORKERS" -> "0"
          [] k = "DATABRICKS_MAX_WORKERS" -> "0"
          [] k = "DATABRICKS_HOST" -> "host"
          [] k = "DATABRICKS_TOKEN" -> "token"
          [] k = "DATABRICKS_NOTEBOOK_PATH" -> "notebook"
          [] k = "PROCESSED_DATA_CONTAINER_NAME" -> "processed-data"
          [] k = "STORAGE_ACCOUNT_NAME" -> "account"
          [] k = "DATASETS_CONTAINER_NAME" -> "datasets"
          [] k = "FINAL_OUTPUT_CONTAINER_NAME" -> "final-output"
          [] k = "DATABRICKS_JOB_ID_MODEL_TRAINING" -> "12345"
          [] k = "STORAGE_ACCOUNT_NAME_PARAM" -> "account"]

With(env, key, value) == [env EXCEPT ![key] = value]

(***************************************************************************)
(* Extract (extract_function/__init__.py).                                 *)
(***************************************************************************)
\* Module constant, read when the module is imported.
OUTPUT_CONTAINER_NAME == EnvGet(moduleEnv, "RAW_DATA_CONTAINER_NAME", "raw-data")

\* s.split('/'): the pieces of s between the '/' tokens, in order.
RECURSIVE Split(_)
Split(s) ==
    IF s = <<>> THEN << <<>> >>
    ELSE LET rest == Split(Tail(s))
         IN  IF Head(s) = "/" THEN << <<>> >> \o rest
             ELSE << <<Head(s)>> \o Head(rest) >> \o Tail(rest)

Last(q) == q[Len(q)]

\* inputBlob.name.split('/')[0]: the first piece, not the last.
FirstPieceOf(name) == Head(Split(name))

\* file_name_only = inputBlob.name.split('/')[-1]
FileNameOnly(name) == Last(Split(name))

\* message_for_queue = f"{OUTPUT_CONTAINER_NAME}/{file_name_only}"
MessageForQueue(container, name) == <<container, "/">> \o FileNameOnly(name)

ExtIdle == [ran |-> FALSE, name |-> <<>>, content |-> <<>>,
            read_raises |-> FALSE, write_raises |-> FALSE,
            outputBlob |-> Unset, outputQueueItem |-> <<>>, errors |-> 0, raised |-> FALSE]

\* An invocation that announces the blob on the queue before it has copied it.
ExtractResultQueueFirst(name, content, readFails, writeFails) ==
    [ExtIdle EXCEPT !.ran = TRUE, !.name = name, !.content = content,
                    !.read_raises = readFails, !.write_raises = writeFails /\ ~readFails,
                    !.outputBlob = IF readFails \/ writeFails THEN Unset ELSE content,
                    !.outputQueueItem = <<MessageForQueue(OUTPUT_CONTAINER_NAME, name)>>,
                    !.errors = IF readFails \/ writeFails THEN 1 ELSE 0,
                    !.raised = readFails \/ writeFails]

\* An invocation that sends no message for a blob the destination holds already.
ExtractResultOnceOnly(name, content, readFails, writeFails) ==
    IF readFails
    THEN [ExtIdle EXCEPT !.ran = TRUE, !.name = name, !.content = content,
                         !.read_raises = TRUE, !.errors = 1, !.raised = TRUE]
    ELSE IF writeFails
    THEN [ExtIdle EXCEPT !.ran = TRUE, !.name = name, !.content = content,
                         !.write_raises = TRUE, !.errors = 1, !.raised = TRUE]
    ELSE [ExtIdle EXCEPT !.ran = TRUE, !.name = name, !.content = content,
                         !.outputBlob = content,
                         !.outputQueueItem =
                             IF FileNameOnly(name) \in DOMAIN rawStore
                             THEN <<>>
                             ELSE <<MessageForQueue(OUTPUT_CONTAINER_NAME, name)>>]

\* One invocation of main: inputBlob.read() and outputBlob.set() may raise.
\* What the invocation set on its output bindings is kept in ext; the host
\* writes the bindings out when main returns.
ExtractResult(name, content, readFails, writeFails) ==
    IF readFails
    THEN [ExtIdle EXCEPT !.ran = TRUE, !.name = name, !.content = content,
                         !.read_raises = TRUE, !.errors = 1, !.raised = TRUE]
    ELSE IF writeFails
    THEN [ExtIdle EXCEPT !.ran = TRUE, !.name = name, !.content = content,
                         !.write_raises = TRUE, !.errors = 1, !.raised = TRUE]
    ELSE [ExtIdle EXCEPT !.ran = TRUE, !.name = name, !.content = content,
                         !.outputBlob = content,
                         !.outputQueueItem = <<MessageForQueue(OUTPUT_CONTAINER_NAME, name)>>]

Extract(name, content, readFails, writeFails) ==
    /\ extractRuns < MaxExtractRuns
    /\ Len(transformQueue) < MaxQueue
    /\ LET r == ExtractResult(name, content, readFails, writeFails)
       IN  /\ ext' = r
           /\ extractRuns' = extractRuns + 1
           /\ IF r.raised
              THEN UNCHANGED <<rawStore, transformQueue>>
              ELSE /\ rawStore' = [n \in DOMAIN rawStore \cup {FileNameOnly(name)} |->
                                      IF n = FileNameOnly(name) THEN r.outputBlob
                                      ELSE rawStore[n]]
                   /\ transformQueue' = transformQueue \o
                          [i \in 1..Len(r.outputQueueItem) |-> TextBody(r.outputQueueItem[i])]
    /\ UNCHANGED <<moduleEnv, environ, helper, transformVars, loadQueue, loadVars, tr>>

ExtractStep ==
    \E name \in BlobNames, content \in Contents, readFails \in BOOLEAN, writeFails \in BOOLEAN :
        Extract(name, content, readFails, writeFails)

(***************************************************************************)
(* The compute job runner, as Transform sees it.                           *)
(***************************************************************************)
MaxRuns == 2
MaxWorkers == 1
Inv == {1, 2}

\* run_info.state of a run that is still going.
Running == [done |-> FALSE, has_state |-> TRUE, life_cycle_state |-> "RUNNING",
            result_state |-> None, state_message |-> None]

\* What wait_get_run_job_terminated_or_skipped can hand back: a state, or no state at all.
RunStates ==
    [done : {TRUE}, has_state : {TRUE}, life_cycle_state : {"TERMINATED", "SKIPPED"},
     result_state : {"SUCCESS"}, state_message : {None}]
    \cup [done : {TRUE}, has_state : {TRUE}, life_cycle_state : {"TERMINATED", "SKIPPED"},
          result_state : {"FAILED"}, state_message : {None, "X"}]
    \cup {[done |-> TRUE, has_state |-> FALSE, life_cycle_state |-> None,
           result_state |-> None, state_message |-> None]}

\* w.jobs.submit_run with a context already submitted returning the earlier run.
SubmitRunOnce(context, cluster) ==
    IF \E id \in DOMAIN runs : runs[id].context = context
    THEN [run_id |-> CHOOSE id \in DOMAIN runs : runs[id].context = context, runs |-> runs]
    ELSE [run_id |-> Len(runs) + 1,
          runs |-> Append(runs, [context |-> context, cluster |-> cluster, state |-> Running])]

\* run_submission = w.jobs.submit_run(...): every call starts a run of its own,
\* and the runner numbers the runs.
SubmitRun(context, cluster) ==
    [run_id |-> Len(runs) + 1,
     runs |-> Append(runs, [context |-> context, cluster |-> cluster, state |-> Running])]

\* The run ends, in the runner.
RunnerFinish(id, st) ==
    /\ id \in DOMAIN runs
    /\ ~runs[id].state.done
    /\ runs' = [runs EXCEPT ![id].state = st]
    /\ UNCHANGED <<moduleEnv, environ, helper, extractVars, transformQueue, tinv, deliveries,
                   loadQueue, loadVars, tr>>

(***************************************************************************)
(* Transform (transform_function/__init__.py).                             *)
(***************************************************************************)
\* int(s) for the numerals the settings hold.
IntOf(s) == CHOOSE n \in 0..MaxWorkers : ToString(n) = s

\* Module constants, read when the module is imported.
DATABRICKS_MIN_WORKERS == IntOf(EnvGet(moduleEnv, "DATABRICKS_MIN_WORKERS", "0"))
DATABRICKS_MAX_WORKERS == IntOf(EnvGet(moduleEnv, "DATABRICKS_MAX_WORKERS", "0"))
LOAD_QUEUE_NAME == moduleEnv["LOAD_TRIGGER_QUEUE_NAME"]
STORAGE_CONNECTION_STRING_FOR_QUEUES == moduleEnv["AzureWebJobsStorage"]

\* The settings main reads with os.environ[...]: a missing one raises KeyError.
TransformRequired == {"DATABRICKS_HOST", "DATABRICKS_TOKEN", "DATABRICKS_NOTEBOOK_PATH",
                      "RAW_DATA_CONTAINER_NAME", "PROCESSED_DATA_CONTAINER_NAME",
                      "STORAGE_ACCOUNT_NAME"}

NoCluster == [num_workers |-> -1, single_node |-> FALSE, autoscale |-> FALSE,
              min_workers |-> -1, max_workers |-> -1]

\* A rule that looks at the upper bound alone.
NewClusterDefinitionMaxOnly(minw, maxw) ==
    IF maxw = 0
    THEN [NoCluster EXCEPT !.num_workers = 0, !.single_node = TRUE]
    ELSE [NoCluster EXCEPT !.autoscale = TRUE, !.min_workers = minw, !.max_workers = maxw]

\* new_cluster_definition: single node when both bounds are 0, autoscale otherwise.
NewClusterDefinition(minw, maxw) ==
    IF minw = 0 /\ maxw = 0
    THEN [NoCluster EXCEPT !.num_workers = 0, !.single_node = TRUE]
    ELSE [NoCluster EXCEPT !.autoscale = TRUE, !.min_workers = minw, !.max_workers = maxw]

\* The message built from the run_id main starts with (None), not the submitted one.
JsonDumpsStaleRunId(processed_container, run_id) ==
    <<"{", "dataset_name", "olist_ecommerce",
           "processed_data_base_path", processed_container \o "/olist_ecommerce_processed",
           "status", "transformed_successfully",
           "databricks_run_id", "null", "}">>

\* A message that names the run after the one waited on.
JsonDumpsNextRunId(processed_container, run_id) ==
    <<"{", "dataset_name", "olist_ecommerce",
           "processed_data_base_path", processed_container \o "/olist_ecommerce_processed",
           "status", "transformed_successfully",
           "databricks_run_id", ToString(run_id + 1), "}">>

\* message_for_load_function, as json.dumps writes it.
JsonDumps(processed_container, run_id) ==
    <<"{", "dataset_name", "olist_ecommerce",
           "processed_data_base_path", processed_container \o "/olist_ecommerce_processed",
           "status", "transformed_successfully",
           "databricks_run_id", ToString(run_id), "}">>

\* json.loads of a message text: the object it denotes, when it is one.
JsonLoads(text) ==
    IF Len(text) >= 2 /\ text[1] = "{" /\ text[Len(text)] = "}" /\ Len(text) % 2 = 0
    THEN [ok |-> TRUE,
          obj |-> [k \in {text[2 * j] : j \in 1..((Len(text) - 2) \div 2)} |->
                      text[1 + 2 * (CHOOSE j \in 1..((Len(text) - 2) \div 2) : text[2 * j] = k)]]]
    ELSE [ok |-> FALSE, obj |-> <<>>]

\* An error message that leaves out the run's own state message.
ErrorMessageNoReason(run_id, life_cycle_state, result_state, detail) ==
    <<"Databricks notebook run ", ToString(run_id), " failed or was canceled. LifeCycleState: ",
      life_cycle_state, ", ResultState: ", result_state, ".">>

\* error_message of a run that did not end in SUCCESS.
ErrorMessage(run_id, life_cycle_state, result_state, detail) ==
    <<"Databricks notebook run ", ToString(run_id), " failed or was canceled. LifeCycleState: ",
      life_cycle_state, ", ResultState: ", result_state, ". Reason: ", detail>>

TIdle == [pc |-> "idle", body |-> BadBody, run_id |-> 0, submitted |-> 0,
          cluster |-> NoCluster, run_info |-> Running, sent |-> <<>>,
          errors |-> 0, warnings |-> 0, error_text |-> <<>>]

\* A main that reads its settings with os.environ.get: a missing one is None,
\* nothing raises, and the run is submitted.
TransformStartEnvGet(i, body) ==
    /\ tinv[i].pc # "waiting"
    /\ IF ~body.utf8
       THEN /\ tinv' = [tinv EXCEPT ![i] = [TIdle EXCEPT !.pc = "raised", !.body = body,
                                                        !.errors = 1,
                                                        !.error_text = <<"UnicodeDecodeError">>]]
            /\ UNCHANGED <<runs, deliveries>>
       ELSE /\ Len(runs) < MaxRuns
            /\ LET cluster == NewClusterDefinition(DATABRICKS_MIN_WORKERS, DATABRICKS_MAX_WORKERS)
                   sub == SubmitRun(body.text, cluster)
               IN  /\ runs' = sub.runs
                   /\ tinv' = [tinv EXCEPT ![i] = [TIdle EXCEPT !.pc = "waiting", !.body = body,
                                                                !.run_id = sub.run_id,
                                                                !.submitted = 1,
                                                                !.cluster = cluster]]
            /\ deliveries' = [b \in DOMAIN deliveries \cup {body} |->
                                 IF b = body
                                 THEN (IF b \in DOMAIN deliveries THEN deliveries[b] ELSE 0) + 1
                                 ELSE deliveries[b]]
    /\ UNCHANGED <<moduleEnv, environ, helper, extractVars, loadQueue, loadVars, tr>>

\* main up to the blocking wait: decode the body, read the settings, build the
\* cluster definition and submit the run.  A body that does not decode and a
\* missing setting raise into the handler at the end of main, which logs and re-raises.
TransformStart(i, body) ==
    /\ tinv[i].pc # "waiting"
    /\ IF ~body.utf8
       THEN /\ tinv' = [tinv EXCEPT ![i] = [TIdle EXCEPT !.pc = "raised", !.body = body,
                                                        !.errors = 1,
                                                        !.error_text = <<"UnicodeDecodeError">>]]
            /\ UNCHANGED <<runs, deliveries>>
       ELSE IF \E k \in TransformRequired : environ[k] = None
       THEN /\ tinv' = [tinv EXCEPT ![i] = [TIdle EXCEPT !.pc = "raised", !.body = body,
                                                        !.errors = 1,
                                                        !.error_text = <<"KeyError">>]]
            /\ UNCHANGED <<runs, deliveries>>
       ELSE /\ Len(runs) < MaxRuns
            /\ LET cluster == NewClusterDefinition(DATABRICKS_MIN_WORKERS, DATABRICKS_MAX_WORKERS)
                   sub == SubmitRun(body.text, cluster)
               IN  /\ runs' = sub.runs
                   /\ tinv' = [tinv EXCEPT ![i] = [TIdle EXCEPT !.pc = "waiting", !.body = body,
                                                                !.run_id = sub.run_id,
                                                                !.submitted = 1,
                                                                !.cluster = cluster]]
            /\ deliveries' = [b \in DOMAIN deliveries \cup {body} |->
                                 IF b = body
                                 THEN (IF b \in DOMAIN deliveries THEN deliveries[b] ELSE 0) + 1
                                 ELSE deliveries[b]]
    /\ UNCHANGED <<moduleEnv, environ, helper, extractVars, loadQueue, loadVars, tr>>

\* A success branch that sends whether or not the Load queue is configured.
MessagesOnSuccessAlways(processed_container, run_id) ==
    <<JsonDumps(processed_container, run_id)>>

\* result_state == "SUCCESS" with the Load queue configured: the messages sent.
MessagesOnSuccess(processed_container, run_id) ==
    IF LOAD_QUEUE_NAME # None /\ STORAGE_CONNECTION_STRING_FOR_QUEUES # None
    THEN <<JsonDumps(processed_container, run_id)>>
    ELSE <<>>

\* main from the blocking wait on: the wait returns once the run has ended; then
\* the branch on result_state.
TransformWait(i) ==
    /\ tinv[i].pc = "waiting"
    /\ runs[tinv[i].run_id].state.done
    /\ LET run_id == tinv[i].run_id
           run_info == runs[run_id].state
           life_cycle_state == IF run_info.has_state THEN run_info.life_cycle_state
                               ELSE "UNKNOWN_LIFECYCLE"
           result_state == IF run_info.has_state THEN run_info.result_state
                           ELSE "UNKNOWN_RESULT"
           detail == IF run_info.has_state /\ run_info.state_message # None
                     THEN run_info.state_message
                     ELSE "Unknown error during Databricks run."
           sent == MessagesOnSuccess(environ["PROCESSED_DATA_CONTAINER_NAME"], run_id)
       IN  IF result_state = "SUCCESS"
           THEN /\ Len(loadQueue) + Len(sent) <= MaxQueue
                /\ tinv' = [tinv EXCEPT ![i].pc = "returned", ![i].run_info = run_info,
                                        ![i].sent = sent,
                                        ![i].warnings = IF sent = <<>> THEN 1 ELSE 0]
                /\ loadQueue' = loadQueue \o [j \in 1..Len(sent) |-> TextBody(sent[j])]
           ELSE /\ tinv' = [tinv EXCEPT ![i].pc = "raised", ![i].run_info = run_info,
                                        ![i].errors = 2,
                                        ![i].error_text =
                                            ErrorMessage(run_id, life_cycle_state,
                                                         result_state, detail)]
                /\ UNCHANGED loadQueue
    /\ UNCHANGED <<moduleEnv, environ, helper, extractVars, transformQueue, runs, deliveries,
                   loadVars, tr>>

(***************************************************************************)
(* Load (load_function/__init__.py).                                       *)
(***************************************************************************)
MaxLoadRuns == 2

\* The settings main reads with os.environ.get: a missing one is None.
LoadRequired == {"AzureWebJobsStorage", "DATASETS_CONTAINER_NAME", "FINAL_OUTPUT_CONTAINER_NAME"}

LdIdle == [pc |-> "idle", body |-> BadBody, blob_name_to_load |-> <<"UNKNOWN_BLOB">>,
           source_blob_data |-> Unset, errors |-> 0, exists_calls |-> 0,
           downloads |-> 0, uploads |-> 0]

\* blob_name_to_load = msg.get_body().decode('utf-8'): the whole text of the message.
BlobNameToLoad(text) == text

\* A main that starts the copy without asking whether the source blob exists.
LoadStartNoExistsCheck(body) ==
    /\ ld.pc \notin {"download", "upload"}
    /\ loadRuns < MaxLoadRuns
    /\ loadRuns' = loadRuns + 1
    /\ IF ~body.utf8
       THEN ld' = [LdIdle EXCEPT !.pc = "raised", !.body = body]
       ELSE IF BlobNameToLoad(body.text) = <<>>
       THEN ld' = [LdIdle EXCEPT !.pc = "returned", !.body = body,
                                 !.blob_name_to_load = <<>>, !.errors = 1]
       ELSE IF \E k \in LoadRequired : environ[k] = None
       THEN ld' = [LdIdle EXCEPT !.pc = "returned", !.body = body,
                                 !.blob_name_to_load = BlobNameToLoad(body.text), !.errors = 1]
       ELSE ld' = [LdIdle EXCEPT !.pc = "download", !.body = body,
                                 !.blob_name_to_load = BlobNameToLoad(body.text)]
    /\ UNCHANGED <<moduleEnv, environ, helper, extractVars, transformQueue, transformVars,
                   datasetsStore, finalStore, tr>>

\* main up to source_blob_client.exists().  The logging call that opens main
\* decodes the body before the try block is entered, so a body that does not
\* decode raises there, outside every handler, and nothing is logged.
LoadStart(body) ==
    /\ ld.pc \notin {"download", "upload"}
    /\ loadRuns < MaxLoadRuns
    /\ loadRuns' = loadRuns + 1
    /\ IF ~body.utf8
       THEN ld' = [LdIdle EXCEPT !.pc = "raised", !.body = body]
       ELSE IF BlobNameToLoad(body.text) = <<>>
       THEN ld' = [LdIdle EXCEPT !.pc = "returned", !.body = body,
                                 !.blob_name_to_load = <<>>, !.errors = 1]
       ELSE IF \E k \in LoadRequired : environ[k] = None
       THEN ld' = [LdIdle EXCEPT !.pc = "returned", !.body = body,
                                 !.blob_name_to_load = BlobNameToLoad(body.text), !.errors = 1]
       ELSE IF BlobNameToLoad(body.text) \notin DOMAIN datasetsStore
       THEN ld' = [LdIdle EXCEPT !.pc = "returned", !.body = body,
                                 !.blob_name_to_load = BlobNameToLoad(body.text),
                                 !.errors = 1, !.exists_calls = 1]
       ELSE ld' = [LdIdle EXCEPT !.pc = "download", !.body = body,
                                 !.blob_name_to_load = BlobNameToLoad(body.text),
                                 !.exists_calls = 1]
    /\ UNCHANGED <<moduleEnv, environ, helper, extractVars, transformQueue, transformVars,
                   datasetsStore, finalStore, tr>>

\* A download whose failure is logged and swallowed: main returns.
LoadDownloadSwallows(fails) ==
    /\ ld.pc = "download"
    /\ IF fails \/ ld.blob_name_to_load \notin DOMAIN datasetsStore
       THEN ld' = [ld EXCEPT !.pc = "returned", !.errors = 1, !.downloads = 1]
       ELSE ld' = [ld EXCEPT !.pc = "upload", !.downloads = 1,
                             !.source_blob_data = datasetsStore[ld.blob_name_to_load]]
    /\ UNCHANGED <<moduleEnv, environ, helper, extractVars, transformQueue, transformVars, loadQueue,
                   loadRuns, datasetsStore, finalStore, tr>>

\* source_blob_data = source_blob_client.download_blob().readall(): raises when
\* the request fails or the blob is not there; the handler logs and re-raises.
LoadDownload(fails) ==
    /\ ld.pc = "download"
    /\ IF fails \/ ld.blob_name_to_load \notin DOMAIN datasetsStore
       THEN ld' = [ld EXCEPT !.pc = "raised", !.errors = 1, !.downloads = 1]
       ELSE ld' = [ld EXCEPT !.pc = "upload", !.downloads = 1,
                             !.source_blob_data = datasetsStore[ld.blob_name_to_load]]
    /\ UNCHANGED <<moduleEnv, environ, helper, extractVars, transformQueue, transformVars, loadQueue,
                   loadRuns, datasetsStore, finalStore, tr>>

\* An upload that leaves an object already there as it is (overwrite=False, unraised).
UploadBlobKeepsExisting(store, name, data) ==
    [n \in DOMAIN store \cup {name} |-> IF n \in DOMAIN store THEN store[n] ELSE data]

\* destination_blob_client.upload_blob(source_blob_data, overwrite=True)
UploadBlob(store, name, data) ==
    [n \in DOMAIN store \cup {name} |-> IF n = name THEN data ELSE store[n]]

LoadUpload(fails) ==
    /\ ld.pc = "upload"
    /\ IF fails
       THEN /\ ld' = [ld EXCEPT !.pc = "raised", !.errors = 1, !.uploads = 1]
            /\ UNCHANGED finalStore
       ELSE /\ ld' = [ld EXCEPT !.pc = "returned", !.uploads = 1]
            /\ finalStore' = UploadBlob(finalStore, ld.blob_name_to_load, ld.source_blob_data)
    /\ UNCHANGED <<moduleEnv, environ, helper, extractVars, transformQueue, transformVars, loadQueue,
                   loadRuns, datasetsStore, tr>>

(***************************************************************************)
(* Train (train_model_function/__init__.py).                               *)
(***************************************************************************)
\* The stub job runner answers a non-terminal state to the first n status
\* queries, n up to MaxStubRunning.
MaxStubRunning == 31

max_wait_time_seconds == 1800
poll_interval_seconds == 60
\* requests.get(..., timeout=30): a status query takes up to this long.
request_timeout == 30
\* time.time() at the first loop check, as the timeout test mocks it.
MockedLateClock == 1900

\* A host constant that is there whatever the settings were.
HostAlwaysSet == "host"

\* Module constants, read when the module is imported.
DATABRICKS_HOST == moduleEnv["DATABRICKS_HOST"]
DATABRICKS_TOKEN == moduleEnv["DATABRICKS_TOKEN"]
DATABRICKS_JOB_ID_MODEL_TRAINING == moduleEnv["DATABRICKS_JOB_ID_MODEL_TRAINING"]
STORAGE_ACCOUNT_NAME_PARAM == moduleEnv["STORAGE_ACCOUNT_NAME_PARAM"]

\* int(job_id) raises ValueError unless job_id is a numeral.
IsNumeral(st) == st \in {"12345"}

NoResult == <<"<None>">>
\* run_output.notebook_output.result of a status response: a JSON text, a text
\* that is not JSON, or nothing.
ResultStrings == {<<"{", "model_accuracy", "0.95", "}">>, <<"oops">>, NoResult}

\* The states a status response reports that do not end the polling, the last
\* one being a response with no state at all.
NonTerminalStates == {"RUNNING", "PENDING", "UNKNOWN"}
TerminalStates == {"TERMINATED", "SKIPPED", "INTERNAL_ERROR"}

\* What get_databricks_run_status returns once the stub stops answering a
\* non-terminal state: a terminal status response, or an error result.
FinalAnswers ==
    [status : {"ok"}, life_cycle_state : TerminalStates, result_state : {"SUCCESS"},
     result : ResultStrings]
    \cup [status : {"ok"}, life_cycle_state : TerminalStates,
          result_state : {"FAILED", "CANCELED", "UNKNOWN"}, result : {NoResult}]
    \cup [status : {"error"}, life_cycle_state : {"HttpError", "RequestError"},
          result_state : {None}, result : {NoResult}]

\* What trigger_databricks_job returns for a request that was sent.
SubmissionAnswers ==
    [status : {"submitted"}, run_id : {0, 67890}, error_type : {None}]
    \cup [status : {"error"}, run_id : {0}, error_type : {"HttpError", "RequestError"}]

\* ---- The helper functions, as functions of their arguments and of what the
\* HTTP request meets.

\* What requests.post / requests.get meets: a 2xx response (its JSON holding a
\* run_id, or none: 0), an error status (raise_for_status raises HTTPError),
\* or no response at all (a RequestException).
HttpResponses ==
    [kind : {"ok"}, status_code : {200}, run_id : {0, 67890}]
    \cup [kind : {"http_error"}, status_code : {400, 500}, run_id : {0}]
    \cup [kind : {"transport"}, status_code : {0}, run_id : {0}]

\* The job ids a caller passes: none, a numeral, a text that is no numeral.
JobIds == {None, "12345", "abc"}

\* int(job_id), for a numeral.
JobIdInt(job_id) == CHOOSE n \in {12345} : ToString(n) = job_id

\* What a helper hands back: a returned result, or an exception, and the
\* HTTP requests it made on the way.
NoReturn == [raised |-> None, status |-> None, run_id |-> 0, job_id |-> None,
             message |-> <<>>, error_type |-> None, http |-> <<>>]

\* {"status": "error", "message": msg, "error_type": "ConfigurationError"}
ConfigurationErrorResult(msg) ==
    [NoReturn EXCEPT !.status = "error", !.message = <<msg>>,
                     !.error_type = "ConfigurationError"]

\* An HTTP error result whose message leaves out the status code.
HttpErrorResultNoCode(response, http) ==
    [NoReturn EXCEPT !.status = "error", !.message = <<"HTTP Error: ", "body">>,
                     !.error_type = "HttpError", !.http = http]

\* except requests.exceptions.HTTPError: "HTTP Error: {status_code} - {text}"
HttpErrorResult(response, http) ==
    [NoReturn EXCEPT !.status = "error",
                     !.message = <<"HTTP Error: ", ToString(response.status_code), " - ", "body">>,
                     !.error_type = "HttpError", !.http = http]

\* except requests.exceptions.RequestException
RequestErrorResult(response, http) ==
    [NoReturn EXCEPT !.status = "error", !.message = <<"RequestException">>,
                     !.error_type = "RequestError", !.http = http]

\* payload = {"job_id": int(job_id)}, with notebook_params when there are any.
Payload(job_id, notebook_params) ==
    [method |-> "POST", job_id |-> JobIdInt(job_id), run_id |-> 0,
     notebook_params |-> notebook_params]

trigger_databricks_job(job_id, notebook_params, response) ==
    IF DATABRICKS_HOST = None \/ DATABRICKS_TOKEN = None \/ job_id = None
    THEN ConfigurationErrorResult("Missing Databricks host, token, or job ID.")
    ELSE IF ~IsNumeral(job_id)
    THEN [NoReturn EXCEPT !.raised = "ValueError"]
    ELSE LET http == <<Payload(job_id, notebook_params)>>
         IN  CASE response.kind = "ok" ->
                    [NoReturn EXCEPT !.status = "submitted", !.run_id = response.run_id,
                                     !.job_id = job_id, !.http = http]
               [] response.kind = "http_error" -> HttpErrorResult(response, http)
               [] response.kind = "transport" -> RequestErrorResult(response, http)

get_databricks_run_status(run_id, response) ==
    IF DATABRICKS_HOST = None \/ DATABRICKS_TOKEN = None
    THEN ConfigurationErrorResult("Missing Databricks host or token.")
    ELSE LET http == <<[method |-> "GET", job_id |-> 0, run_id |-> run_id,
                        notebook_params |-> <<>>]>>
         IN  CASE response.kind = "ok" ->
                    [NoReturn EXCEPT !.status = "ok", !.run_id = run_id, !.http = http]
               [] response.kind = "http_error" -> HttpErrorResult(response, http)
               [] response.kind = "transport" -> RequestErrorResult(response, http)

NoCall == [fn |-> None, job_id |-> None, run_id |-> 0, notebook_params |-> <<>>,
           response |-> [kind |-> None, status_code |-> 0, run_id |-> 0],
           result |-> NoReturn]

CallTrigger(job_id, notebook_params, response) ==
    /\ helper' = [fn |-> "trigger_databricks_job", job_id |-> job_id, run_id |-> 0,
                  notebook_params |-> notebook_params, response |-> response,
                  result |-> trigger_databricks_job(job_id, notebook_params, response)]
    /\ UNCHANGED <<moduleEnv, environ, extractVars, transformQueue, transformVars, loadQueue,
                   loadVars, tr>>

CallStatus(run_id, response) ==
    /\ helper' = [fn |-> "get_databricks_run_status", job_id |-> None, run_id |-> run_id,
                  notebook_params |-> <<>>, response |-> response,
                  result |-> get_databricks_run_status(run_id, response)]
    /\ UNCHANGED <<moduleEnv, environ, extractVars, transformQueue, transformVars, loadQueue,
                   loadVars, tr>>

NoJobOutput == [kind |-> "none", value |-> <<>>]

\* A job_output that drops what does not parse.
JobOutputStrict(result) ==
    IF result # NoResult /\ JsonLoads(result).ok
    THEN [kind |-> "parsed", value |-> JsonLoads(result).obj]
    ELSE NoJobOutput

\* job_output of a SUCCESS run: json.loads of the result, or the raw value
\* under "raw_output" when it does not parse (or is None).
JobOutput(result) ==
    IF result # NoResult /\ JsonLoads(result).ok
    THEN [kind |-> "parsed", value |-> JsonLoads(result).obj]
    ELSE [kind |-> "raw_output", value |-> [raw_output |-> result]]

NoStatus == [recorded |-> FALSE, life_cycle_state |-> None, result_state |-> None,
             notebook_output |-> NoJobOutput]

NoAnswer == [status |-> None, life_cycle_state |-> None, result_state |-> None,
             result |-> NoResult]

\* submission_response before trigger_databricks_job has returned.
NoSubmission == [status |-> None, run_id |-> 0, error_type |-> None]

TrIdle == [pc |-> "idle", body |-> BadBody, stub_n |-> 0, late |-> 0, elapsed |-> 0,
           queries |-> 0, requests |-> 0, run_id |-> 0,
           trigger_calls |-> 0, submission_response |-> NoSubmission,
           final_status_details |-> NoStatus, last_answer |-> NoAnswer,
           errors |-> 0, warnings |-> 0]

\* A main that submits a second time when the first submission returns an error.
TrainStartRetriesSubmission(body, answer, n, late) ==
    /\ tr.pc = "idle"
    /\ IF ~body.utf8
       THEN tr' = [TrIdle EXCEPT !.pc = "returned", !.body = body, !.errors = 1]
       ELSE IF DATABRICKS_JOB_ID_MODEL_TRAINING = None \/ STORAGE_ACCOUNT_NAME_PARAM = None
       THEN tr' = [TrIdle EXCEPT !.pc = "returned", !.body = body, !.errors = 1]
       ELSE IF DATABRICKS_HOST = None \/ DATABRICKS_TOKEN = None
       THEN tr' = [TrIdle EXCEPT !.pc = "returned", !.body = body, !.errors = 2,
                                 !.trigger_calls = 1,
                                 !.submission_response =
                                     [status |-> "error", run_id |-> 0,
                                      error_type |-> "ConfigurationError"]]
       ELSE IF ~IsNumeral(DATABRICKS_JOB_ID_MODEL_TRAINING)
       THEN tr' = [TrIdle EXCEPT !.pc = "returned", !.body = body, !.errors = 1,
                                 !.trigger_calls = 1]
       ELSE IF answer.status = "error"
       THEN tr' = [TrIdle EXCEPT !.pc = "returned", !.body = body, !.errors = 4,
                                 !.requests = 2, !.trigger_calls = 2,
                                 !.submission_response = answer]
       ELSE IF answer.run_id = 0
       THEN tr' = [TrIdle EXCEPT !.pc = "returned", !.body = body, !.errors = 1,
                                 !.requests = 1, !.trigger_calls = 1,
                                 !.submission_response = answer]
       ELSE tr' = [TrIdle EXCEPT !.pc = "polling", !.body = body, !.requests = 1,
                                 !.trigger_calls = 1, !.submission_response = answer,
                                 !.run_id = answer.run_id, !.stub_n = n,
                                 !.late = late, !.elapsed = late]
    /\ UNCHANGED <<moduleEnv, environ, helper, extractVars, transformQueue, transformVars, loadQueue,
                   loadVars>>

\* main up to the polling loop: decode the body, check the settings, submit the job.
TrainStart(body, answer, n, late) ==
    /\ tr.pc = "idle"
    /\ IF ~body.utf8
       THEN tr' = [TrIdle EXCEPT !.pc = "returned", !.body = body, !.errors = 1]
       ELSE IF DATABRICKS_JOB_ID_MODEL_TRAINING = None \/ STORAGE_ACCOUNT_NAME_PARAM = None
       THEN tr' = [TrIdle EXCEPT !.pc = "returned", !.body = body, !.errors = 1]
       ELSE IF DATABRICKS_HOST = None \/ DATABRICKS_TOKEN = None
       THEN tr' = [TrIdle EXCEPT !.pc = "returned", !.body = body, !.errors = 2,
                                 !.trigger_calls = 1,
                                 !.submission_response =
                                     [status |-> "error", run_id |-> 0,
                                      error_type |-> "ConfigurationError"]]
       ELSE IF ~IsNumeral(DATABRICKS_JOB_ID_MODEL_TRAINING)
       THEN tr' = [TrIdle EXCEPT !.pc = "returned", !.body = body, !.errors = 1,
                                 !.trigger_calls = 1]
       ELSE IF answer.status = "error"
       THEN tr' = [TrIdle EXCEPT !.pc = "returned", !.body = body, !.errors = 2,
                                 !.requests = 1, !.trigger_calls = 1,
                                 !.submission_response = answer]
       ELSE IF answer.run_id = 0
       THEN tr' = [TrIdle EXCEPT !.pc = "returned", !.body = body, !.errors = 1,
                                 !.requests = 1, !.trigger_calls = 1,
                                 !.submission_response = answer]
       ELSE tr' = [TrIdle EXCEPT !.pc = "polling", !.body = body, !.requests = 1,
                                 !.trigger_calls = 1, !.submission_response = answer,
                                 !.run_id = answer.run_id, !.stub_n = n,
                                 !.late = late, !.elapsed = late]
    /\ UNCHANGED <<moduleEnv, environ, helper, extractVars, transformQueue, transformVars, loadQueue,
                   loadVars>>

\* A timeout recorded as a failed run.
TimedOutStatusAsFailure == [recorded |-> TRUE, life_cycle_state |-> "INTERNAL_ERROR",
                            result_state |-> "FAILED", notebook_output |-> NoJobOutput]

\* The while-else branch: the loop condition failed before any break.
TimedOutStatus == [recorded |-> TRUE, life_cycle_state |-> "TIMED_OUT_WAITING",
                   result_state |-> "UNKNOWN", notebook_output |-> NoJobOutput]

\* A terminal status recorded without reading the run's output.
TerminalStatusNoOutput(answer) ==
    [recorded |-> TRUE, life_cycle_state |-> answer.life_cycle_state,
     result_state |-> answer.result_state, notebook_output |-> NoJobOutput]

\* final_status_details of a terminal status response.
TerminalStatus(answer) ==
    [recorded |-> TRUE, life_cycle_state |-> answer.life_cycle_state,
     result_state |-> answer.result_state,
     notebook_output |-> IF answer.result_state = "SUCCESS" THEN JobOutput(answer.result)
                         ELSE NoJobOutput]

\* A check after the loop that logs nothing.
AfterLoopNoLog(status) == 0

\* The check after the loop: a recorded status that is not SUCCESS is logged as an error.
AfterLoopErrors(status) == IF status.recorded /\ status.result_state # "SUCCESS" THEN 1 ELSE 0

\* A timeout that sends one more request to the runner, to cancel the run.
TrainTimeoutCancels ==
    /\ tr.pc = "polling"
    /\ ~(tr.elapsed < max_wait_time_seconds)
    /\ tr' = [tr EXCEPT !.pc = "returned", !.final_status_details = TimedOutStatus,
                        !.requests = @ + 1,
                        !.warnings = 1, !.errors = @ + AfterLoopErrors(TimedOutStatus)]
    /\ UNCHANGED <<moduleEnv, environ, helper, extractVars, transformQueue, transformVars, loadQueue,
                   loadVars>>

\* while time.time() - start_time < max_wait_time_seconds, failing.
TrainTimeout ==
    /\ tr.pc = "polling"
    /\ ~(tr.elapsed < max_wait_time_seconds)
    /\ tr' = [tr EXCEPT !.pc = "returned", !.final_status_details = TimedOutStatus,
                        !.warnings = 1, !.errors = @ + AfterLoopErrors(TimedOutStatus)]
    /\ UNCHANGED <<moduleEnv, environ, helper, extractVars, transformQueue, transformVars, loadQueue,
                   loadVars>>

\* A loop that takes any reported state for the end of the run.
TrainPollRunningRecords(state, latency) ==
    /\ tr.pc = "polling"
    /\ tr.elapsed < max_wait_time_seconds
    /\ tr.queries < tr.stub_n
    /\ tr' = [tr EXCEPT !.pc = "returned", !.queries = @ + 1, !.requests = @ + 1,
                        !.elapsed = @ + latency,
                        !.final_status_details =
                            [recorded |-> TRUE, life_cycle_state |-> state,
                             result_state |-> "UNKNOWN", notebook_output |-> NoJobOutput],
                        !.errors = @ + 1]
    /\ UNCHANGED <<moduleEnv, environ, helper, extractVars, transformQueue, transformVars, loadQueue,
                   loadVars>>

\* A loop that does not sleep between two status queries.
TrainPollRunningNoSleep(state, latency) ==
    /\ tr.pc = "polling"
    /\ tr.elapsed < max_wait_time_seconds
    /\ tr.queries < tr.stub_n
    /\ tr' = [tr EXCEPT !.queries = @ + 1, !.requests = @ + 1,
                        !.elapsed = @ + latency]
    /\ UNCHANGED <<moduleEnv, environ, helper, extractVars, transformQueue, transformVars, loadQueue,
                   loadVars>>

\* One turn of the loop whose status query reports a non-terminal state: the
\* query takes `latency`, then time.sleep(poll_interval_seconds).
TrainPollRunning(state, latency) ==
    /\ tr.pc = "polling"
    /\ tr.elapsed < max_wait_time_seconds
    /\ tr.queries < tr.stub_n
    /\ tr' = [tr EXCEPT !.queries = @ + 1, !.requests = @ + 1,
                        !.elapsed = @ + latency + poll_interval_seconds]
    /\ UNCHANGED <<moduleEnv, environ, helper, extractVars, transformQueue, transformVars, loadQueue,
                   loadVars>>

\* A loop that logs a failed status query and goes on to return.
TrainPollFinalLogsOnly(answer) ==
    /\ tr.pc = "polling"
    /\ tr.elapsed < max_wait_time_seconds
    /\ tr.queries = tr.stub_n
    /\ IF answer.status = "error"
       THEN tr' = [tr EXCEPT !.pc = "returned", !.queries = @ + 1, !.requests = @ + 1,
                             !.last_answer = answer, !.errors = @ + 2]
       ELSE tr' = [tr EXCEPT !.pc = "returned", !.queries = @ + 1, !.requests = @ + 1,
                             !.final_status_details = TerminalStatus(answer),
                             !.last_answer = answer,
                             !.errors = @ + AfterLoopErrors(TerminalStatus(answer))]
    /\ UNCHANGED <<moduleEnv, environ, helper, extractVars, transformQueue, transformVars, loadQueue,
                   loadVars>>

\* One turn of the loop whose status query gets the stub's final answer: an
\* error result raises, a terminal state is recorded and breaks the loop.
TrainPollFinal(answer) ==
    /\ tr.pc = "polling"
    /\ tr.elapsed < max_wait_time_seconds
    /\ tr.queries = tr.stub_n
    /\ IF answer.status = "error"
       THEN tr' = [tr EXCEPT !.pc = "raised", !.queries = @ + 1, !.requests = @ + 1,
                             !.last_answer = answer, !.errors = @ + 3]
       ELSE tr' = [tr EXCEPT !.pc = "returned", !.queries = @ + 1, !.requests = @ + 1,
                             !.final_status_details = TerminalStatus(answer),
                             !.last_answer = answer,
                             !.errors = @ + AfterLoopErrors(TerminalStatus(answer))]
    /\ UNCHANGED <<moduleEnv, environ, helper, extractVars, transformQueue, transformVars, loadQueue,
                   loadVars>>

(***************************************************************************)
(* Initial states and specifications.                                      *)
(***************************************************************************)
EmptyStore == [n \in {} |-> <<>>]

\* ---- Extract alone: blob arrivals, under the environment of the import and of now.
ExtractEnvs == {With(FullEnv, "RAW_DATA_CONTAINER_NAME", v) :
                    v \in {None, "test-raw-data"}}

InitExtract ==
    /\ moduleEnv \in ExtractEnvs
    /\ environ \in ExtractEnvs
    /\ ext = ExtIdle
    /\ extractRuns = 0
    /\ rawStore = EmptyStore
    /\ transformQueue = <<>>
    /\ tinv = [i \in Inv |-> TIdle]
    /\ runs = <<>>
    /\ deliveries = [b \in {} |-> 0]
    /\ loadQueue = <<>>
    /\ ld = LdIdle
    /\ loadRuns = 0
    /\ datasetsStore = EmptyStore
    /\ finalStore = EmptyStore
    /\ tr = TrIdle
    /\ helper = NoCall

NextExtract == ExtractStep

SpecExtract == InitExtract /\ [][NextExtract]_vars

\* ---- Transform alone: the queue delivers trigger messages, any of them any
\* number of times, to concurrent invocations.
TransformBodies == {TextBody(<<"raw-data", "/", "s">>), TextBody(<<"trigger">>), BadBody}

Numerals == {ToString(n) : n \in 0..MaxWorkers}

\* The settings in force when the module was imported: the Load queue named
\* or not, the connection string set or not, the worker bounds.
TransformModuleEnvs ==
    {With(With(FullEnv, "LOAD_TRIGGER_QUEUE_NAME", q), "AzureWebJobsStorage", c) :
        q \in {None, "load-queue"}, c \in {None, "conn"}}
    \cup {With(With(FullEnv, "DATABRICKS_MIN_WORKERS", lo), "DATABRICKS_MAX_WORKERS", hi) :
        lo \in Numerals, hi \in Numerals}

\* The settings at the invocation: all there, or one of the required ones missing.
TransformEnvs == {FullEnv} \cup {With(FullEnv, k, None) : k \in TransformRequired}

InitTransform ==
    /\ moduleEnv \in TransformModuleEnvs
    /\ environ \in TransformEnvs
    /\ (moduleEnv = FullEnv \/ environ = FullEnv)
    /\ ext = ExtIdle
    /\ extractRuns = 0
    /\ rawStore = EmptyStore
    /\ transformQueue = <<>>
    /\ tinv = [i \in Inv |-> TIdle]
    /\ runs = <<>>
    /\ deliveries = [b \in {} |-> 0]
    /\ loadQueue = <<>>
    /\ ld = LdIdle
    /\ loadRuns = 0
    /\ datasetsStore = EmptyStore
    /\ finalStore = EmptyStore
    /\ tr = TrIdle
    /\ helper = NoCall

TransformDeliver(i, body) ==
    /\ TransformStart(i, body)
    /\ UNCHANGED transformQueue

RunnerStep == \E id \in 1..MaxRuns, st \in RunStates : RunnerFinish(id, st)

NextTransform ==
    \/ \E i \in Inv, body \in TransformBodies : TransformDeliver(i, body)
    \/ \E i \in Inv : TransformWait(i)
    \/ RunnerStep

SpecTransform == InitTransform /\ [][NextTransform]_vars

\* ---- Load alone: the queue delivers messages of either shape.
LoadNames == {<<"s">>, <<"s", "/", "s">>}

LoadBodies == {TextBody(n) : n \in LoadNames}
              \cup {TextBody(<<>>), BadBody, TextBody(JsonDumps("processed-data", 1))}

LoadEnvs == {FullEnv} \cup {With(FullEnv, k, None) : k \in LoadRequired}

Stores == UNION {[names -> Contents] : names \in SUBSET LoadNames}

InitLoad ==
    /\ moduleEnv = FullEnv
    /\ environ \in LoadEnvs
    /\ ext = ExtIdle
    /\ extractRuns = 0
    /\ rawStore = EmptyStore
    /\ transformQueue = <<>>
    /\ tinv = [i \in Inv |-> TIdle]
    /\ runs = <<>>
    /\ deliveries = [b \in {} |-> 0]
    /\ loadQueue = <<>>
    /\ ld = LdIdle
    /\ loadRuns = 0
    /\ datasetsStore \in Stores
    /\ finalStore \in Stores
    /\ tr = TrIdle
    /\ helper = NoCall

LoadDeliver(body) ==
    /\ LoadStart(body)
    /\ UNCHANGED loadQueue

NextLoad ==
    \/ \E body \in LoadBodies : LoadDeliver(body)
    \/ \E fails \in BOOLEAN : LoadDownload(fails)
    \/ \E fails \in BOOLEAN : LoadUpload(fails)

SpecLoad == InitLoad /\ [][NextLoad]_vars

\* ---- Load beside another user of the datasets container, who may remove a
\* blob at any moment, between two calls of an invocation included.
RemoveBlob(name) ==
    /\ name \in DOMAIN datasetsStore
    /\ datasetsStore' = [n \in DOMAIN datasetsStore \ {name} |-> datasetsStore[n]]
    /\ UNCHANGED <<moduleEnv, environ, helper, extractVars, transformQueue, transformVars, loadQueue,
                   ld, loadRuns, finalStore, tr>>

NextLoadShared ==
    \/ \E body \in LoadBodies : LoadDeliver(body)
    \/ \E fails \in BOOLEAN : LoadDownload(fails)
    \/ \E fails \in BOOLEAN : LoadUpload(fails)
    \/ \E name \in LoadNames : RemoveBlob(name)

SpecLoadShared == InitLoad /\ [][NextLoadShared]_vars

\* ---- Train alone.
TrainModuleEnvs ==
    {FullEnv, With(FullEnv, "DATABRICKS_JOB_ID_MODEL_TRAINING", "abc")}
    \cup {With(FullEnv, k, None) : k \in {"DATABRICKS_HOST", "DATABRICKS_TOKEN",
                                          "DATABRICKS_JOB_ID_MODEL_TRAINING",
                                          "STORAGE_ACCOUNT_NAME_PARAM"}}

InitTrain ==
    /\ moduleEnv \in TrainModuleEnvs
    /\ environ = FullEnv
    /\ ext = ExtIdle
    /\ extractRuns = 0
    /\ rawStore = EmptyStore
    /\ transformQueue = <<>>
    /\ tinv = [i \in Inv |-> TIdle]
    /\ runs = <<>>
    /\ deliveries = [b \in {} |-> 0]
    /\ loadQueue = <<>>
    /\ ld = LdIdle
    /\ loadRuns = 0
    /\ datasetsStore = EmptyStore
    /\ finalStore = EmptyStore
    /\ tr = TrIdle
    /\ helper = NoCall

TrainBodies == {TextBody(<<"train">>), BadBody}

NextTrain ==
    \/ \E body \in TrainBodies, answer \in SubmissionAnswers, n \in 0..MaxStubRunning,
          late \in {0, MockedLateClock} : TrainStart(body, answer, n, late)
    \/ TrainTimeout
    \/ \E state \in NonTerminalStates, latency \in {0, request_timeout} :
          TrainPollRunning(state, latency)
    \/ \E answer \in FinalAnswers : TrainPollFinal(answer)

SpecTrain == InitTrain /\ [][NextTrain]_vars

\* The steps of an invocation under way: main is sequential code, each status
\* request returns or fails within its timeout and each sleep ends, so a step
\* that stays possible is taken.
TrainStep ==
    \/ TrainTimeout
    \/ \E state \in NonTerminalStates, latency \in {0, request_timeout} :
          TrainPollRunning(state, latency)
    \/ \E answer \in FinalAnswers : TrainPollFinal(answer)

\* Every step of an invocation changes where it is or how often it has asked.
trainProgress == <<tr.pc, tr.queries>>

SpecTrainFair == InitTrain /\ [][NextTrain]_vars /\ WF_trainProgress(TrainStep)

\* ---- The helper functions of Train alone, called as the tests call them.
InitHelpers == InitTrain

NotebookParams == {<<>>, <<"STORAGE_ACCOUNT_NAME", "account">>}

NextHelpers ==
    \/ \E job_id \in JobIds, notebook_params \in NotebookParams, response \in HttpResponses :
          CallTrigger(job_id, notebook_params, response)
    \/ \E run_id \in {67890}, response \in HttpResponses : CallStatus(run_id, response)

SpecHelpers == InitHelpers /\ [][NextHelpers]_vars

\* ---- The pipeline: a blob arrival, Extract, the transform queue, Transform,
\* the load queue, Load.
MaxArrivals == 1

\* The blobs that arrive: one at the top of the container, one in a folder.
PipelineArrivals == {<<"s">>, <<"s", "/", "s">>}

TransformFromQueue(i) ==
    /\ transformQueue # <<>>
    /\ TransformStart(i, Head(transformQueue))
    /\ transformQueue' = Tail(transformQueue)

LoadFromQueue ==
    /\ loadQueue # <<>>
    /\ LoadStart(Head(loadQueue))
    /\ loadQueue' = Tail(loadQueue)

\* Another producer of the Load queue: the deployment variant whose messages
\* are bare blob paths.
EnqueueBarePath(name) ==
    /\ Len(loadQueue) < MaxQueue
    /\ loadQueue' = Append(loadQueue, TextBody(name))
    /\ UNCHANGED <<moduleEnv, environ, helper, extractVars, transformQueue, transformVars,
                   loadVars, tr>>

Init ==
    /\ moduleEnv = FullEnv
    /\ environ = FullEnv
    /\ ext = ExtIdle
    /\ extractRuns = 0
    /\ rawStore = EmptyStore
    /\ transformQueue = <<>>
    /\ tinv = [i \in Inv |-> TIdle]
    /\ runs = <<>>
    /\ deliveries = [b \in {} |-> 0]
    /\ loadQueue = <<>>
    /\ ld = LdIdle
    /\ loadRuns = 0
    /\ datasetsStore = [n \in {<<"s">>} |-> <<"c1">>]
    /\ finalStore = EmptyStore
    /\ tr = TrIdle
    /\ helper = NoCall

Next ==
    \/ \E name \in PipelineArrivals, content \in Contents,
          readFails \in BOOLEAN, writeFails \in BOOLEAN :
          (extractRuns < MaxArrivals /\ Extract(name, content, readFails, writeFails))
    \/ \E i \in Inv : TransformFromQueue(i)
    \/ \E i \in Inv : TransformWait(i)
    \/ RunnerStep
    \/ \E name \in LoadNames : EnqueueBarePath(name)
    \/ LoadFromQueue
    \/ \E fails \in BOOLEAN : LoadDownload(fails)
    \/ \E fails \in BOOLEAN : LoadUpload(fails)

Spec == Init /\ [][Next]_vars

(***************************************************************************)
(* The claims.                                                             *)
(***************************************************************************)
Contains(text, token) == \E k \in DOMAIN text : text[k] = token

TransformWaitOver(i) == tinv[i].pc = "waiting" /\ tinv'[i].pc # "waiting"

C2_TransformFailureRaises ==
    [][\A i \in Inv :
        (/\ TransformWaitOver(i)
         /\ runs[tinv[i].run_id].state.has_state
         /\ runs[tinv[i].run_id].state.result_state # "SUCCESS")
        => LET st == runs[tinv[i].run_id].state
           IN  /\ tinv'[i].pc = "raised"
               /\ tinv'[i].errors >= 1
               /\ Contains(tinv'[i].error_text, ToString(tinv[i].run_id))
               /\ Contains(tinv'[i].error_text, st.life_cycle_state)
               /\ Contains(tinv'[i].error_text, st.result_state)
               /\ st.state_message # None => Contains(tinv'[i].error_text, st.state_message)
               /\ tinv'[i].sent = <<>>
               /\ loadQueue' = loadQueue]_vars

C2_Witness ==
    \E i \in Inv : /\ tinv[i].pc = "raised"
                   /\ tinv[i].run_info.done
                   /\ tinv[i].run_info.result_state = "FAILED"
                   /\ tinv[i].run_info.state_message = "X"

Finished(pc) == pc \in {"returned", "raised"}

\* C3: in each of Transform, Load and Train, an invocation whose message body
\* is not valid UTF-8 is caught inside the stage and logs an error; in no
\* stage does the decode failure escape unlogged.
C3_BadBodyLoggedInEveryStage ==
    /\ \A i \in Inv : (Finished(tinv[i].pc) /\ ~tinv[i].body.utf8) => tinv[i].errors >= 1
    /\ (Finished(ld.pc) /\ ~ld.body.utf8) => ld.errors >= 1
    /\ (Finished(tr.pc) /\ ~tr.body.utf8) => tr.errors >= 1

LoadConfigured == \A k \in LoadRequired : environ[k] # None

\* C4: Load handles both payload shapes: a bare blob path is copied to the
\* final output container, and the JSON object Transform sends is resolved
\* from its fields (the JSON text is not taken as the blob name) and the
\* processed data is copied to the final output container.
C4_LoadHandlesBothShapes ==
    (ld.pc = "returned" /\ ld.body.utf8 /\ ld.body.text # <<>> /\ LoadConfigured)
    => IF JsonLoads(ld.body.text).ok
       THEN /\ ld.blob_name_to_load # ld.body.text
            /\ ld.uploads = 1
       ELSE ld.body.text \in DOMAIN datasetsStore
            => /\ ld.uploads = 1
               /\ ld.body.text \in DOMAIN finalStore
               /\ finalStore[ld.body.text] = datasetsStore[ld.body.text]

PipelineQuiet ==
    /\ transformQueue = <<>>
    /\ loadQueue = <<>>
    /\ \A i \in Inv : tinv[i].pc # "waiting"
    /\ ld.pc \notin {"download", "upload"}

\* C5: with the configuration present, no I/O failure and every run ending
\* TERMINATED/SUCCESS, a blob arrival that Extract handled is followed by a
\* Transform submission and by a Load invocation that writes a blob to the
\* final output container: once the pipeline has come to rest, the Load
\* invocation that took Transform's message has written.
C5_PipelineReachesFinalStore ==
    (/\ PipelineQuiet
     /\ ext.ran /\ ~ext.raised
     /\ \A id \in DOMAIN runs : /\ runs[id].state.has_state
                                /\ runs[id].state.life_cycle_state = "TERMINATED"
                                /\ runs[id].state.result_state = "SUCCESS"
     /\ \A i \in Inv : tinv[i].pc # "raised"
     /\ ld.pc # "raised")
    => /\ Len(runs) >= 1
       /\ loadRuns >= 1
       /\ JsonLoads(ld.body.text).ok
          => /\ ld.uploads = 1
             /\ ld.blob_name_to_load \in DOMAIN finalStore

\* The part of a name after its last "/" (all of it when it has none).
LeafAfterLastSlash(name) ==
    LET slashes == {k \in 1..Len(name) : name[k] = "/"}
        last == IF slashes = {} THEN 0 ELSE CHOOSE k \in slashes : \A j \in slashes : j <= k
    IN  SubSeq(name, last + 1, Len(name))

\* C6: an Extract invocation whose read and write succeed sets the output blob
\* to exactly the content read and sets exactly one queue message,
\* "<destination container>/<leaf>", leaf being the part of the name after its
\* last "/"; the host then holds that blob and that message.
C6_ExtractSuccess ==
    (ext.ran /\ ~ext.read_raises /\ ~ext.write_raises)
    => LET message == <<OUTPUT_CONTAINER_NAME, "/">> \o LeafAfterLastSlash(ext.name)
       IN  /\ ~ext.raised
           /\ ext.errors = 0
           /\ ext.outputBlob = ext.content
           /\ ext.outputQueueItem = <<message>>
           /\ LeafAfterLastSlash(ext.name) \in DOMAIN rawStore
           /\ rawStore[LeafAfterLastSlash(ext.name)] = ext.content
           /\ transformQueue # <<>>
           /\ Last(transformQueue) = TextBody(message)

C6_Witness ==
    /\ ext.ran /\ ~ext.raised
    /\ ext.name = <<"/", "s">>
    /\ Len(ext.outputQueueItem) = 1

\* C7: an Extract invocation whose read or write raises logs one error,
\* raises, and sets no queue message; the queue is as it was.
C7_ExtractFailureSendsNothing ==
    [][(extractRuns' = extractRuns + 1 /\ (ext'.read_raises \/ ext'.write_raises))
       => /\ ext'.raised
          /\ ext'.errors = 1
          /\ ext'.outputQueueItem = <<>>
          /\ transformQueue' = transformQueue]_vars

C7_Witness == ext.ran /\ ext.write_raises /\ ext.raised

\* C8: every delivery that passes configuration validation submits a new run:
\* a message delivered k times has k runs, and the invocations hold distinct
\* run ids; no delivery is skipped because an earlier one submitted already.
C8_EveryDeliverySubmits ==
    /\ \A b \in DOMAIN deliveries :
          Cardinality({id \in DOMAIN runs : runs[id].context = b.text}) = deliveries[b]
    /\ \A i \in Inv : tinv[i].submitted = 1 =>
          /\ tinv[i].run_id \in DOMAIN runs
          /\ runs[tinv[i].run_id].context = tinv[i].body.text
    /\ \A i, j \in Inv :
          (i # j /\ tinv[i].submitted = 1 /\ tinv[j].submitted = 1)
          => tinv[i].run_id # tinv[j].run_id

C8_Witness ==
    /\ \E b \in DOMAIN deliveries : deliveries[b] = 2
    /\ \A i \in Inv : tinv[i].submitted = 1

\* The answers Train got are those of a stub that reports RUNNING to the first
\* stub_n status queries and TERMINATED/SUCCESS, with a JSON result, afterwards.
StubRunningThenSuccess ==
    /\ Finished(tr.pc)
    /\ tr.run_id # 0
    /\ \/ tr.queries <= tr.stub_n
       \/ /\ tr.last_answer.status = "ok"
          /\ tr.last_answer.life_cycle_state = "TERMINATED"
          /\ tr.last_answer.result_state = "SUCCESS"
          /\ JsonLoads(tr.last_answer.result).ok

\* Only the sleeps take time: no query latency, no late first check.
OnlySleepsTakeTime == tr.elapsed = poll_interval_seconds * (IF tr.queries <= tr.stub_n
                                                             THEN tr.queries
                                                             ELSE tr.queries - 1)

RecordedParsedOutput ==
    /\ tr.pc = "returned"
    /\ tr.final_status_details.recorded
    /\ tr.final_status_details.life_cycle_state = "TERMINATED"
    /\ tr.final_status_details.result_state = "SUCCESS"
    /\ tr.final_status_details.notebook_output.kind = "parsed"
    /\ tr.final_status_details.notebook_output.value = JsonLoads(tr.last_answer.result).obj

\* C9, as claimed: for every N, with the stub above and 60-second sleeps
\* against the 1800-second ceiling, Train issues at most N+1 status queries
\* and records a final result whose notebook_output is the JSON parsed from
\* the final status response.
C9_AsClaimed ==
    (StubRunningThenSuccess /\ OnlySleepsTakeTime)
    => /\ tr.queries <= tr.stub_n + 1
       /\ RecordedParsedOutput

\* C9, amended: Train issues at most N+1 status queries; when the (N+1)-th
\* loop check still finds less than 1800 seconds elapsed (with only the sleeps
\* taking time: exactly when N <= 29) it issues exactly N+1 and records the
\* parsed notebook_output; otherwise it stops after at most N queries with
\* TIMED_OUT_WAITING and no notebook_output.
C9_PollingTermination ==
    StubRunningThenSuccess
    => /\ tr.queries <= tr.stub_n + 1
       /\ IF tr.queries = tr.stub_n + 1
          THEN RecordedParsedOutput
          ELSE /\ tr.pc = "returned"
               /\ tr.elapsed >= max_wait_time_seconds
               /\ tr.final_status_details.life_cycle_state = "TIMED_OUT_WAITING"
               /\ tr.final_status_details.notebook_output.kind = "none"
       /\ OnlySleepsTakeTime
          => (tr.queries = tr.stub_n + 1
              <=> poll_interval_seconds * tr.stub_n < max_wait_time_seconds)

C9_Witness ==
    /\ StubRunningThenSuccess
    /\ OnlySleepsTakeTime
    /\ tr.stub_n = 3
    /\ tr.queries = 4
    /\ RecordedParsedOutput

\* C10: with a runner that never reports a terminal state, the polling loop
\* ends once the elapsed time has reached max_wait_time_seconds: the status
\* recorded is TIMED_OUT_WAITING / UNKNOWN and the invocation returns without
\* raising; when the first loop check already finds the time elapsed, no
\* status query is issued.
C10_TrainTimeout ==
    /\ [][(tr.pc = "polling" /\ tr.elapsed >= max_wait_time_seconds)
          => /\ tr'.pc = "returned"
             /\ tr'.queries = tr.queries
             /\ tr'.final_status_details.life_cycle_state = "TIMED_OUT_WAITING"]_vars
    /\ []((tr.pc = "polling" /\ tr.queries <= tr.stub_n)
          => tr.elapsed >= tr.late + poll_interval_seconds * tr.queries)
    /\ []((Finished(tr.pc) /\ tr.run_id # 0 /\ tr.queries <= tr.stub_n)
          => /\ tr.pc = "returned"
             /\ tr.elapsed >= max_wait_time_seconds
             /\ tr.final_status_details.recorded
             /\ tr.final_status_details.life_cycle_state = "TIMED_OUT_WAITING"
             /\ tr.final_status_details.result_state = "UNKNOWN"
             /\ tr.late >= max_wait_time_seconds => tr.queries = 0)

C10_Witness ==
    /\ tr.pc = "returned"
    /\ tr.final_status_details.life_cycle_state = "TIMED_OUT_WAITING"
    /\ tr.final_status_details.result_state = "UNKNOWN"
    /\ tr.stub_n > tr.queries
    /\ tr.queries >= 20

\* C11: when the polled run reaches a terminal lifecycle state with a
\* result_state other than SUCCESS (FAILED, CANCELED, or none given), Train
\* records that status, logs an error and returns without raising.
C11_TrainFailureIsSwallowed ==
    (/\ Finished(tr.pc)
     /\ tr.last_answer.status = "ok"
     /\ tr.last_answer.life_cycle_state \in {"TERMINATED", "SKIPPED", "INTERNAL_ERROR"}
     /\ tr.last_answer.result_state # "SUCCESS")
    => /\ tr.pc = "returned"
       /\ tr.errors >= 1
       /\ tr.final_status_details.recorded
       /\ tr.final_status_details.life_cycle_state = tr.last_answer.life_cycle_state
       /\ tr.final_status_details.result_state = tr.last_answer.result_state
       /\ tr.final_status_details.notebook_output.kind = "none"

C11_Witness ==
    /\ tr.pc = "returned"
    /\ tr.last_answer.status = "ok"
    /\ tr.last_answer.life_cycle_state = "TERMINATED"
    /\ tr.last_answer.result_state = "FAILED"
    /\ tr.queries = 3

\* C12: a status query that fails (get_databricks_run_status yields an error
\* result) ends the polling loop at once: the invocation raises on that very
\* turn, having logged the failure and recorded no final status, and once it
\* has raised no further query is issued.
C12_StatusQueryFailureIsFatal ==
    /\ [][(tr.pc = "polling" /\ tr'.queries = tr.queries + 1
           /\ tr'.last_answer.status = "error")
          => /\ tr'.pc = "raised"
             /\ tr'.errors >= tr.errors + 1
             /\ ~tr'.final_status_details.recorded]_vars
    /\ [][tr.pc = "raised" => (tr'.queries = tr.queries /\ tr'.requests = tr.requests)]_vars
    /\ [](tr.last_answer.status = "error" => tr.pc = "raised")

C12_Witness ==
    /\ tr.pc = "raised"
    /\ tr.last_answer.status = "error"
    /\ tr.last_answer.life_cycle_state = "HttpError"
    /\ tr.queries = 3

\* C13: a Load invocation with a decodable, non-empty payload and the full
\* configuration whose source blob is not in the source container logs one
\* error and returns without raising, having asked for nothing but the blob's
\* existence: no download, no upload, the destination container as it was.
C13_LoadMissingSource ==
    [][(/\ loadRuns' = loadRuns + 1
        /\ ld'.body.utf8
        /\ ld'.body.text # <<>>
        /\ LoadConfigured
        /\ ld'.body.text \notin DOMAIN datasetsStore)
       => /\ ld'.pc = "returned"
          /\ ld'.errors = 1
          /\ ld'.exists_calls = 1
          /\ ld'.downloads = 0
          /\ ld'.uploads = 0
          /\ finalStore' = finalStore]_vars

C13_Witness ==
    /\ ld.pc = "returned"
    /\ ld.body = TextBody(<<"s", "/", "s">>)
    /\ LoadConfigured
    /\ <<"s", "/", "s">> \notin DOMAIN datasetsStore
    /\ <<"s">> \in DOMAIN datasetsStore
    /\ ld.errors = 1
    /\ ld.exists_calls = 1

\* The six settings the claim names.
C14_Settings == {"DATABRICKS_HOST", "DATABRICKS_TOKEN", "DATABRICKS_NOTEBOOK_PATH",
                 "RAW_DATA_CONTAINER_NAME", "PROCESSED_DATA_CONTAINER_NAME",
                 "STORAGE_ACCOUNT_NAME"}

\* C14: a Transform invocation that runs while one of the six required
\* settings is absent logs an error and raises; it submits no run and sends
\* nothing to the Load queue.
C14_TransformMissingConfiguration ==
    [][\A i \in Inv :
        (/\ tinv[i].pc # "waiting"
         /\ tinv'[i] # tinv[i]
         /\ tinv'[i].body.utf8
         /\ \E k \in C14_Settings : environ[k] = None)
        => /\ tinv'[i].pc = "raised"
           /\ tinv'[i].errors >= 1
           /\ tinv'[i].submitted = 0
           /\ tinv'[i].sent = <<>>
           /\ runs' = runs
           /\ loadQueue' = loadQueue]_vars

C14_Witness ==
    /\ environ["STORAGE_ACCOUNT_NAME"] = None
    /\ \E i \in Inv : /\ tinv[i].pc = "raised"
                      /\ tinv[i].body = TextBody(<<"trigger">>)
                      /\ tinv[i].error_text = <<"KeyError">>
    /\ runs = <<>>

\* C15: when the run ends with result_state SUCCESS and the Load queue name
\* or the queue connection string is not configured, the Transform invocation
\* logs a warning, sends no message and returns without raising.
C15_TransformWithoutLoadQueue ==
    [][\A i \in Inv :
        (/\ TransformWaitOver(i)
         /\ runs[tinv[i].run_id].state.has_state
         /\ runs[tinv[i].run_id].state.result_state = "SUCCESS"
         /\ \/ moduleEnv["LOAD_TRIGGER_QUEUE_NAME"] = None
            \/ moduleEnv["AzureWebJobsStorage"] = None)
        => /\ tinv'[i].pc = "returned"
           /\ tinv'[i].warnings = 1
           /\ tinv'[i].errors = 0
           /\ tinv'[i].sent = <<>>
           /\ loadQueue' = loadQueue]_vars

C15_Witness ==
    /\ moduleEnv["LOAD_TRIGGER_QUEUE_NAME"] = None
    /\ moduleEnv["AzureWebJobsStorage"] # None
    /\ \E i \in Inv : /\ tinv[i].pc = "returned"
                      /\ tinv[i].run_info.result_state = "SUCCESS"
                      /\ tinv[i].warnings = 1
                      /\ tinv[i].sent = <<>>

\* The settings the claim names: job id, storage account name, host, token.
C16_Settings == {"DATABRICKS_JOB_ID_MODEL_TRAINING", "STORAGE_ACCOUNT_NAME_PARAM",
                 "DATABRICKS_HOST", "DATABRICKS_TOKEN"}

\* C16: a Train invocation (with a decodable body) for which the job id, the
\* storage account name parameter, the host or the token is absent logs an
\* error and returns without raising; it sends no submission request, gets no
\* run id and issues no status query.
C16_TrainMissingConfiguration ==
    (/\ tr.pc # "idle"
     /\ tr.body.utf8
     /\ \E k \in C16_Settings : moduleEnv[k] = None)
    => /\ tr.pc = "returned"
       /\ tr.errors >= 1
       /\ tr.requests = 0
       /\ tr.queries = 0
       /\ tr.run_id = 0
       /\ ~tr.final_status_details.recorded

C16_Witness ==
    /\ moduleEnv["DATABRICKS_HOST"] = None
    /\ moduleEnv["DATABRICKS_JOB_ID_MODEL_TRAINING"] # None
    /\ tr.pc = "returned"
    /\ tr.body.utf8
    /\ tr.errors = 2
    /\ tr.requests = 0

HelperCalled == helper.fn # None

HelperConfigMissing ==
    \/ moduleEnv["DATABRICKS_HOST"] = None
    \/ moduleEnv["DATABRICKS_TOKEN"] = None
    \/ (helper.fn = "trigger_databricks_job" /\ helper.job_id = None)

\* What the claim says of the results the helpers return.
HelperResultsAsClaimed ==
    LET r == helper.result
    IN  /\ HelperConfigMissing
           => /\ r.status = "error"
              /\ r.error_type = "ConfigurationError"
              /\ r.http = <<>>
        /\ (~HelperConfigMissing /\ r.raised = None /\ helper.response.kind = "http_error")
           => /\ r.status = "error"
              /\ r.error_type = "HttpError"
              /\ Contains(r.message, ToString(helper.response.status_code))
              /\ Len(r.http) = 1
        /\ (~HelperConfigMissing /\ r.raised = None /\ helper.response.kind = "transport")
           => /\ r.status = "error"
              /\ r.error_type = "RequestError"
              /\ Len(r.http) = 1
        /\ (/\ ~HelperConfigMissing /\ r.raised = None /\ helper.response.kind = "ok"
            /\ helper.fn = "trigger_databricks_job")
           => /\ r.status = "submitted"
              /\ r.run_id = helper.response.run_id
              /\ r.job_id = helper.job_id
              /\ Len(r.http) = 1
              /\ r.http[1].method = "POST"
              /\ r.http[1].job_id \in Int
              /\ ToString(r.http[1].job_id) = helper.job_id

\* C18, as claimed: the helpers report every failure as a returned value,
\* never as an exception, and their results are as described.
C18_AsClaimed ==
    HelperCalled => (helper.result.raised = None /\ HelperResultsAsClaimed)

\* C18, amended: the results are as described, and the helpers raise nothing,
\* except that trigger_databricks_job, given host, token and a job id that is
\* not an integer numeral, raises ValueError from int(job_id) before any
\* request is made.
C18_HelpersReturnValues ==
    HelperCalled
    => /\ HelperResultsAsClaimed
       /\ helper.result.raised # None
          <=> (/\ helper.fn = "trigger_databricks_job"
               /\ ~HelperConfigMissing
               /\ helper.job_id \notin {"12345"})
       /\ helper.result.raised # None
          => /\ helper.result.raised = "ValueError"
             /\ helper.result.status = None
             /\ helper.result.http = <<>>

C18_Witness ==
    /\ helper.fn = "trigger_databricks_job"
    /\ helper.job_id = "12345"
    /\ helper.response.kind = "http_error"
    /\ helper.response.status_code = 500
    /\ helper.result.error_type = "HttpError"
    /\ moduleEnv = FullEnv

\* C17: when the job submission returns an error result (HTTP error,
\* transport error or configuration error), the Train invocation has called
\* trigger_databricks_job exactly once (sending one request, or none when the
\* configuration is what is wrong), issues no status query, logs the failure
\* and returns without raising.
C17_TrainSubmissionFailure ==
    /\ [](tr.submission_response.status = "error"
          => /\ tr.pc = "returned"
             /\ tr.trigger_calls = 1
             /\ tr.requests = (IF tr.submission_response.error_type = "ConfigurationError"
                               THEN 0 ELSE 1)
             /\ tr.queries = 0
             /\ tr.errors >= 1
             /\ ~tr.final_status_details.recorded)
    /\ [][tr.submission_response.status = "error" => tr' = tr]_vars

C17_Witness ==
    /\ tr.pc = "returned"
    /\ tr.submission_response.status = "error"
    /\ tr.submission_response.error_type = "HttpError"
    /\ tr.trigger_calls = 1
    /\ tr.requests = 1

\* C19: when the terminal status has result_state SUCCESS, the invocation
\* returns without raising and the recorded notebook_output is the JSON parsed
\* from the run's result string when that parses, and otherwise (a string that
\* is not JSON, or no result at all) the raw value under "raw_output".
C19_TrainOutputParsing ==
    (/\ Finished(tr.pc)
     /\ tr.last_answer.status = "ok"
     /\ tr.last_answer.result_state = "SUCCESS")
    => LET result == tr.last_answer.result
           output == tr.final_status_details.notebook_output
       IN  /\ tr.pc = "returned"
           /\ tr.final_status_details.recorded
           /\ IF result = <<"{", "model_accuracy", "0.95", "}">>
              THEN /\ output.kind = "parsed"
                   /\ DOMAIN output.value = {"model_accuracy"}
                   /\ output.value["model_accuracy"] = "0.95"
              ELSE /\ output.kind = "raw_output"
                   /\ DOMAIN output.value = {"raw_output"}
                   /\ output.value["raw_output"] = result

C19_Witness ==
    /\ tr.pc = "returned"
    /\ tr.last_answer.result_state = "SUCCESS"
    /\ tr.last_answer.result = <<"oops">>
    /\ tr.final_status_details.notebook_output =
           [kind |-> "raw_output", value |-> [raw_output |-> <<"oops">>]]

\* C20: a second successful Extract run on the same name N and content C as
\* the successful run before it leaves the destination blob equal to C, as it
\* was after the first run (the write overwrites), and sends one queue message
\* more, identical to the one the first run sent.
C20_ExtractIdempotentCopy ==
    [][(/\ ext.ran /\ ~ext.raised
        /\ extractRuns' = extractRuns + 1
        /\ ~ext'.raised
        /\ ext'.name = ext.name
        /\ ext'.content = ext.content)
       => LET leaf == LeafAfterLastSlash(ext.name)
          IN  /\ leaf \in DOMAIN rawStore
              /\ rawStore[leaf] = ext.content
              /\ rawStore' = rawStore
              /\ ext'.outputBlob = ext.content
              /\ Len(ext'.outputQueueItem) = 1
              /\ ext'.outputQueueItem = ext.outputQueueItem
              /\ transformQueue # <<>>
              /\ transformQueue' = Append(transformQueue, Last(transformQueue))]_vars

C20_Witness ==
    /\ extractRuns = 2
    /\ ext.ran /\ ~ext.raised
    /\ ext.name = <<"s", "/", "s">>
    /\ Len(transformQueue) = 2
    /\ transformQueue[1] = transformQueue[2]
    /\ DOMAIN rawStore = {<<"s">>}
    /\ rawStore[<<"s">>] = ext.content

\* C21: a Load invocation with a non-empty payload P, the full configuration
\* and a source blob named P goes on to copy it; when the copy completes, the
\* destination holds a blob named P with the source blob's content, whatever
\* it held under that name before, and nothing else in it has changed; a copy
\* onto a destination that holds that content already leaves it unchanged; the
\* source container is never modified.
C21_LoadCopyWithOverwrite ==
    /\ [][(/\ loadRuns' = loadRuns + 1
           /\ ld'.body.utf8 /\ ld'.body.text # <<>>
           /\ LoadConfigured
           /\ ld'.body.text \in DOMAIN datasetsStore)
          => /\ ld'.pc = "download"
             /\ ld'.blob_name_to_load = ld'.body.text]_vars
    /\ [][(ld.pc = "upload" /\ ld'.pc = "returned")
          => LET P == ld.body.text
             IN  /\ DOMAIN finalStore' = DOMAIN finalStore \cup {P}
                 /\ finalStore'[P] = datasetsStore[P]
                 /\ \A n \in DOMAIN finalStore : n # P => finalStore'[n] = finalStore[n]
                 /\ (P \in DOMAIN finalStore /\ finalStore[P] = datasetsStore[P])
                    => finalStore' = finalStore]_vars
    /\ [][datasetsStore' = datasetsStore]_vars
    /\ []((ld.pc = "returned" /\ ld.uploads = 1)
          => /\ ld.body.text \in DOMAIN finalStore
             /\ finalStore[ld.body.text] = datasetsStore[ld.body.text])

C21_Witness ==
    /\ ld.pc = "returned"
    /\ ld.uploads = 1
    /\ loadRuns = 2
    /\ ld.body = TextBody(<<"s", "/", "s">>)
    /\ finalStore[<<"s", "/", "s">>] = <<"c2">>
    /\ DOMAIN finalStore = {<<"s">>, <<"s", "/", "s">>}
    /\ finalStore[<<"s">>] = <<"c1">>

\* C22: a Load invocation whose payload is empty, or for which the connection
\* string, the source container name or the destination container name is
\* missing, logs one error and returns without raising, having made no
\* existence check, no download and no upload; a download or an upload that
\* raises is logged and the invocation raises, the destination untouched.
C22_LoadEarlyReturns ==
    /\ [][(/\ loadRuns' = loadRuns + 1
           /\ ld'.body.utf8
           /\ \/ ld'.body.text = <<>>
              \/ \E k \in {"AzureWebJobsStorage", "DATASETS_CONTAINER_NAME",
                           "FINAL_OUTPUT_CONTAINER_NAME"} : environ[k] = None)
          => /\ ld'.pc = "returned"
             /\ ld'.errors = 1
             /\ ld'.exists_calls = 0
             /\ ld'.downloads = 0
             /\ ld'.uploads = 0
             /\ finalStore' = finalStore
             /\ datasetsStore' = datasetsStore]_vars
    /\ [][(\/ ld.pc = "download" /\ ld'.pc \notin {"download", "upload"}
           \/ ld.pc = "upload" /\ ld'.pc \notin {"upload", "returned"})
          => /\ ld'.pc = "raised"
             /\ ld'.errors = ld.errors + 1
             /\ finalStore' = finalStore]_vars

C22_Witness ==
    /\ ld.pc = "returned"
    /\ ld.body = TextBody(<<"s">>)
    /\ <<"s">> \in DOMAIN datasetsStore
    /\ environ["FINAL_OUTPUT_CONTAINER_NAME"] = None
    /\ ld.errors = 1
    /\ ld.exists_calls = 0

\* C23: on every path of a Train invocation the requests sent to the job
\* runner are the one submission and the status queries, nothing else: the
\* count of requests is the count of queries plus the submission, a step that
\* sends a request is the submission or a status query, and the step that
\* ends the loop on the wait ceiling sends none (no cancel request).
C23_TrainSendsNoCancel ==
    /\ [](tr.requests = tr.queries + (IF tr.submission_response.status \in {"submitted", "error"}
                                         /\ tr.submission_response.error_type
                                                # "ConfigurationError"
                                      THEN 1 ELSE 0))
    /\ [][tr'.requests # tr.requests
          => /\ tr'.requests = tr.requests + 1
             /\ \/ tr.pc = "idle" /\ tr'.trigger_calls = 1 /\ tr'.queries = 0
                \/ tr.pc = "polling" /\ tr'.queries = tr.queries + 1]_vars
    /\ [][(tr.pc = "polling" /\ tr'.final_status_details.life_cycle_state = "TIMED_OUT_WAITING")
          => (tr'.requests = tr.requests /\ tr'.queries = tr.queries)]_vars
    /\ [][tr.pc \in {"returned", "raised"} => tr'.requests = tr.requests]_vars

C23_Witness ==
    /\ tr.pc = "returned"
    /\ tr.final_status_details.life_cycle_state = "TIMED_OUT_WAITING"
    /\ tr.late = 0
    /\ tr.queries = 30
    /\ tr.requests = 31

\* C24: the message a successful Extract invocation sets names the
\* destination container of the environment in force when it runs: with
\* RAW_DATA_CONTAINER_NAME set to X at that time (or unset, X being the default
\* "raw-data"), the payload is "X/<leaf>".
C24_ExtractNamesContainerInEffect ==
    (ext.ran /\ ~ext.raised)
    => ext.outputQueueItem =
           << <<EnvGet(environ, "RAW_DATA_CONTAINER_NAME", "raw-data"), "/">>
              \o LeafAfterLastSlash(ext.name) >>

\* C25: a run whose status response reports life_cycle_state INTERNAL_ERROR is
\* never treated as successful, whatever result_state the response carries:
\* its output is not parsed into notebook_output and the invocation logs the
\* run as failed.
C25_InternalErrorNeverSuccessful ==
    (tr.final_status_details.recorded
     /\ tr.final_status_details.life_cycle_state = "INTERNAL_ERROR")
    => /\ tr.final_status_details.notebook_output = NoJobOutput
       /\ tr.errors >= 1

\* C26: after a successful submission the invocation goes on polling while the
\* reported life_cycle_state is PENDING, RUNNING, missing or any other value
\* that is not terminal; a recorded final status has life_cycle_state
\* TERMINATED, SKIPPED, INTERNAL_ERROR or TIMED_OUT_WAITING and ends the
\* invocation; no status query follows it.
C26_TrainRunTracking ==
    /\ [][(\E state \in NonTerminalStates, latency \in {0, request_timeout} :
              TrainPollRunning(state, latency))
          => /\ tr'.pc = "polling"
             /\ ~tr'.final_status_details.recorded
             /\ tr'.queries = tr.queries + 1]_vars
    /\ [](tr.pc = "polling"
          => tr.submission_response.status = "submitted"
             /\ ~tr.final_status_details.recorded)
    /\ [](tr.final_status_details.recorded
          => /\ tr.final_status_details.life_cycle_state
                    \in {"TERMINATED", "SKIPPED", "INTERNAL_ERROR", "TIMED_OUT_WAITING"}
             /\ tr.pc = "returned")
    /\ [][tr.final_status_details.recorded
          => tr'.queries = tr.queries /\ tr'.requests = tr.requests]_vars

C26_Witness ==
    /\ tr.pc = "returned"
    /\ tr.final_status_details.recorded
    /\ tr.final_status_details.life_cycle_state = "SKIPPED"
    /\ tr.queries = 3

\* C27: every submitted run's cluster has exactly one of two shapes: with both
\* configured worker bounds zero it is the single node (num_workers 0, the
\* singleNode profile, no autoscale); otherwise it carries the autoscale range
\* (min_workers, max_workers) of the configuration and no num_workers.
C27_ClusterSpecRule ==
    \A id \in DOMAIN runs :
        LET c == runs[id].cluster
            lo == IntOf(EnvGet(moduleEnv, "DATABRICKS_MIN_WORKERS", "0"))
            hi == IntOf(EnvGet(moduleEnv, "DATABRICKS_MAX_WORKERS", "0"))
        IN  /\ c.single_node <=> (lo = 0 /\ hi = 0)
            /\ c.single_node # c.autoscale
            /\ c.single_node
               => c.num_workers = 0 /\ c.min_workers = -1 /\ c.max_workers = -1
            /\ c.autoscale
               => c.min_workers = lo /\ c.max_workers = hi /\ c.num_workers = -1

C27_Witness ==
    /\ Len(runs) = 2
    /\ runs[1].cluster.autoscale
    /\ runs[1].cluster.min_workers = 1
    /\ runs[1].cluster.max_workers = 0
    /\ runs[2].cluster = runs[1].cluster

\* The runs that ended with result_state SUCCESS.
SuccessfulRuns == {id \in DOMAIN runs : runs[id].state.done /\ runs[id].state.has_state
                                         /\ runs[id].state.result_state = "SUCCESS"}

\* C28: with concurrent and redelivered Transform invocations, each invocation
\* submits at most one run and waits on the run its own submission returned,
\* it sends a Load message only when that run ended SUCCESS, the Load queue
\* never holds more messages than there are SUCCESS runs, and every message
\* carries the id of a SUCCESS run, no two messages the same one.
C28_LoadMessagesBackedBySuccess ==
    /\ \A i \in Inv :
          /\ tinv[i].submitted <= 1
          /\ tinv[i].submitted = 1
             => /\ tinv[i].run_id \in DOMAIN runs
                /\ runs[tinv[i].run_id].context = tinv[i].body.text
          /\ tinv[i].sent # <<>>
             => tinv[i].submitted = 1 /\ tinv[i].run_id \in SuccessfulRuns
    /\ \A i \in Inv, j \in Inv :
          (i # j /\ tinv[i].submitted = 1 /\ tinv[j].submitted = 1)
          => tinv[i].run_id # tinv[j].run_id
    /\ Len(loadQueue) <= Cardinality(SuccessfulRuns)
    /\ \A m \in 1..Len(loadQueue) :
          /\ JsonLoads(loadQueue[m].text).ok
          /\ \E id \in SuccessfulRuns :
                JsonLoads(loadQueue[m].text).obj["databricks_run_id"] = ToString(id)
    /\ \A m \in 1..Len(loadQueue), n \in 1..Len(loadQueue) :
          m # n => loadQueue[m] # loadQueue[n]

C28_Witness ==
    /\ Len(loadQueue) = 2
    /\ Cardinality(SuccessfulRuns) = 2
    /\ \A i \in Inv : tinv[i].pc = "returned" /\ tinv[i].body = TextBody(<<"raw-data", "/", "s">>)
    /\ tinv[1].run_id = 2
    /\ tinv[2].run_id = 1

\* C29: whatever statuses the runner returns, an invocation issues at most 30
\* status queries (a 60-second sleep follows every non-terminal one and the
\* 1800-second ceiling is tested before each), the time it has waited is at
\* least 60 seconds per query already answered as non-terminal, and an
\* invocation that is polling ends, by returning or by raising.
C29_TrainTerminates ==
    /\ [](tr.queries <= 30)
    /\ [](tr.pc = "polling" => tr.elapsed >= tr.late + 60 * tr.queries)
    /\ (tr.pc = "polling") ~> Finished(tr.pc)

C29_Witness ==
    /\ tr.pc = "raised"
    /\ tr.queries = 30
    /\ tr.stub_n = 29
    /\ tr.last_answer.status = "error"

\* C30: when the source blob has been removed by another user of the container
\* by the time the invocation asks for its content, after source_blob_client.exists()
\* answered that it was there, the invocation returns without raising and
\* leaves the destination container as it was.
C30_LoadSurvivesRemoval ==
    [][(/\ ld.pc = "download"
        /\ ld.blob_name_to_load \notin DOMAIN datasetsStore
        /\ ld'.downloads = ld.downloads + 1)
       => (ld'.pc = "returned" /\ finalStore' = finalStore)]_vars

====
